---- MODULE Spec2Model ----
(***************************************************************************)
(* Model of the task tracker core: storage.py (TaskStorage) and            *)
(* task_manager.py (TaskManager).                                          *)
(*                                                                         *)
(* Python values are represented as follows.                               *)
(*   None                      <<>>                                        *)
(*   an optional argument      <<>> (None) or <<x>> (the value x)          *)
(*   int, bool, str (titles)   TLA+ integers, BOOLEAN, strings             *)
(*   datetime d.isoformat()    <<"str", "T", d>>   (text "....T....")      *)
(*   str(datetime d)           <<"str", " ", d>>   (text ".... ....")      *)
(*   a datetime object d       <<"datetime", d>>                           *)
(* JSON text is a sequence of objects whose members are JSON values:       *)
(*   <<"number", n>>, <<"string", s>>, <<"true">>, <<"false">>, <<"null">> *)
(***************************************************************************)
EXTENDS Integers, Sequences, FiniteSets, TLC

VARIABLES
    disk,       \* the document at TaskStorage.data_file
    cache,      \* per Manager invocation: TaskManager._tasks
    clock,      \* datetime.now()
    last,       \* the last call: operation, manager, arguments, result
    issued,     \* the highest id add_task has returned so far, 0 before
    tasks_in    \* the collection handed to direct TaskStorage calls

vars == <<disk, cache, clock, last, issued, tasks_in>>

----------------------------------------------------------------------------
(* Bounds of the model *)

MaxId == 2       \* add_task is not called once the next id would exceed it
MaxClock == 2    \* datetime.now() ranges over 1..MaxClock
MaxLen == 2      \* length of the collections handed to TaskStorage directly

Managers == {"A", "B"}
\* outcome of open(data_file, 'w') + json.dump: written, refused by open(),
\* or interrupted after open() truncated the file
IO == {"ok", "denied", "torn"}
\* outcome of open(data_file, 'r'): read, or IOError
RD == {"ok", "fail"}

----------------------------------------------------------------------------
(* Python values *)

None == <<>>

IsoFormat(d) == <<"str", "T", d>>

DateTime(d) == <<"datetime", d>>

\* str(x) as json.dump's default= hook applies it to a datetime object
Str(x) == <<"str", " ", x[2]>>

\* str.lower() on the strings of the model
Lower(s) ==
    CASE s = "HIGH" -> "high"
      [] s = "Medium" -> "medium"
      [] s = "LOW" -> "low"
      [] OTHER -> s

PRIORITIES == [high |-> 3, medium |-> 2, low |-> 1]

InPriorities(p) == p \in DOMAIN PRIORITIES

----------------------------------------------------------------------------
(* storage.py: json.dump / json.load *)

\* the default= hook applied to None as well
JsonValueNoNull(v) ==
    IF v = None THEN <<"string", "None", 0>>
    ELSE IF v[1] = "datetime" THEN <<"string", Str(v)[2], Str(v)[3]>>
    ELSE <<"string", v[2], v[3]>>

JsonValue(v) ==
    IF v = None THEN <<"null">>
    ELSE IF v[1] = "datetime" THEN <<"string", Str(v)[2], Str(v)[3]>>
    ELSE <<"string", v[2], v[3]>>

PyValue(j) ==
    IF j[1] = "null" THEN None ELSE <<"str", j[2], j[3]>>

JsonObject(t) ==
    [id |-> <<"number", t.id>>,
     title |-> <<"string", t.title>>,
     description |-> <<"string", t.description>>,
     priority |-> <<"string", t.priority>>,
     completed |-> IF t.completed THEN <<"true">> ELSE <<"false">>,
     created_at |-> JsonValue(t.created_at),
     completed_at |-> JsonValue(t.completed_at)]

PyDict(o) ==
    [id |-> o.id[2],
     title |-> o.title[2],
     description |-> o.description[2],
     priority |-> o.priority[2],
     completed |-> (o.completed[1] = "true"),
     created_at |-> PyValue(o.created_at),
     completed_at |-> PyValue(o.completed_at)]

json_dump(tasks) == [i \in 1..Len(tasks) |-> JsonObject(tasks[i])]

json_load(text) == [i \in 1..Len(text) |-> PyDict(text[i])]

Absent == [state |-> "absent", text |-> <<>>]

\* what an interrupted json.dump of tasks leaves: text that does not parse,
\* written from these tasks
Malformed(tasks) == [state |-> "malformed", text |-> json_dump(tasks)]

\* text that does not parse read for the tasks it still shows
load_tasks_lenient(d, rd) ==
    IF d.state = "absent" THEN <<>>
    ELSE IF rd = "fail" THEN <<>>
    ELSE json_load(d.text)

\* TaskStorage.load_tasks; rd = "fail" is an IOError while reading
load_tasks(d, rd) ==
    IF d.state = "absent" THEN <<>>
    ELSE IF rd = "fail" \/ d.state = "malformed" THEN <<>>
    ELSE json_load(d.text)

\* TaskStorage.save_tasks: the document it leaves behind
save_tasks(d, tasks, io) ==
    IF io = "ok" THEN [state |-> "ok", text |-> json_dump(tasks)]
    ELSE IF io = "torn" THEN Malformed(tasks)
    ELSE d

RECURSIVE MaxIdFrom(_, _, _)
\* Python's max() over the generator: a left-to-right scan
MaxIdFrom(tasks, i, best) ==
    IF i > Len(tasks) THEN best
    ELSE MaxIdFrom(tasks, i + 1, IF tasks[i].id > best THEN tasks[i].id ELSE best)

\* a count instead of a maximum
get_next_id_by_count(tasks) == Len(tasks) + 1

get_next_id(tasks) ==
    IF Len(tasks) = 0 THEN 1
    ELSE MaxIdFrom(tasks, 2, tasks[1].id) + 1

----------------------------------------------------------------------------
(* task_manager.py *)

Unloaded == [loaded |-> FALSE, tasks |-> <<>>]

\* a load on every access
TasksReloaded(m, rd) == load_tasks(disk, rd)

\* TaskManager.tasks: the lazy load on first access
Tasks(m, rd) ==
    IF cache[m].loaded THEN cache[m].tasks ELSE load_tasks(disk, rd)

Loaded(ts) == [loaded |-> TRUE, tasks |-> ts]

Range(s) == {s[i] : i \in 1..Len(s)}

\* tasks of the document (of its text, when it does not parse) that the
\* writer never had in its collection and that are no longer in the
\* collection it writes
Lost(ts, new) ==
    IF disk.state # "absent"
    THEN {t \in Range(json_load(disk.text)) : t \notin Range(ts) /\ t \notin Range(new)}
    ELSE {}

Call(op, m, args, result, outcome, saved, lost) ==
    [op |-> op, mgr |-> m, args |-> args, result |-> result,
     outcome |-> outcome, saved |-> saved, lost |-> lost]

\* the collection put back as it was when the write fails
SaveRollsBack(op, m, args, result, ts, new, ios) ==
    \E io \in ios :
       /\ cache' = [cache EXCEPT ![m] = Loaded(IF io = "ok" THEN new ELSE ts)]
       /\ disk' = save_tasks(disk, new, io)
       /\ last' = IF io = "ok"
                  THEN Call(op, m, args, result, "ok", TRUE, Lost(ts, new))
                  ELSE Call(op, m, args, None, "raised", FALSE, {})

\* TaskManager._save inside a mutating call that computed the collection new
Save(op, m, args, result, ts, new, ios) ==
    \E io \in ios :
       /\ cache' = [cache EXCEPT ![m] = Loaded(new)]
       /\ disk' = save_tasks(disk, new, io)
       /\ last' = IF io = "ok"
                  THEN Call(op, m, args, result, "ok", TRUE, Lost(ts, new))
                  ELSE Call(op, m, args, None, "raised", FALSE, {})

\* a call that returns without reaching _save
NoSave(op, m, args, result, new) ==
    /\ cache' = [cache EXCEPT ![m] = Loaded(new)]
    /\ disk' = disk
    /\ last' = Call(op, m, args, result, "ok", FALSE, {})

\* index of the first task with this id, 0 when there is none
\* the last task taken when none has this id
FindOrLast(ts, task_id) ==
    IF \E i \in 1..Len(ts) : ts[i].id = task_id
    THEN CHOOSE i \in 1..Len(ts) :
            /\ ts[i].id = task_id
            /\ \A j \in 1..(i - 1) : ts[j].id # task_id
    ELSE Len(ts)

Find(ts, task_id) ==
    IF \E i \in 1..Len(ts) : ts[i].id = task_id
    THEN CHOOSE i \in 1..Len(ts) :
            /\ ts[i].id = task_id
            /\ \A j \in 1..(i - 1) : ts[j].id # task_id
    ELSE 0

\* the description argument dropped
NewTaskNoDescription(ts, title, priority, description) ==
    [id |-> get_next_id(ts),
     title |-> title,
     description |-> "",
     priority |-> IF InPriorities(Lower(priority)) THEN Lower(priority) ELSE "medium",
     completed |-> FALSE,
     created_at |-> IsoFormat(clock),
     completed_at |-> None]

\* the priority stored as given, without the check against PRIORITIES
NewTaskUnvalidated(ts, title, priority, description) ==
    [id |-> get_next_id(ts),
     title |-> title,
     description |-> description,
     priority |-> Lower(priority),
     completed |-> FALSE,
     created_at |-> IsoFormat(clock),
     completed_at |-> None]

NewTask(ts, title, priority, description) ==
    [id |-> get_next_id(ts),
     title |-> title,
     description |-> description,
     priority |-> IF InPriorities(Lower(priority)) THEN Lower(priority) ELSE "medium",
     completed |-> FALSE,
     created_at |-> IsoFormat(clock),
     completed_at |-> None]

add_task(m, title, priority, description, rd, ios) ==
    LET ts == Tasks(m, rd)
        task == NewTask(ts, title, priority, description)
        new == Append(ts, task)
    IN /\ task.id <= MaxId
       /\ Save("add_task", m, <<title, priority, description>>, task, ts, new, ios)
       /\ issued' = IF last'.outcome = "ok" /\ task.id > issued THEN task.id ELSE issued
       /\ UNCHANGED <<clock, tasks_in>>

get_task(m, task_id, rd) ==
    LET ts == Tasks(m, rd)
        i == Find(ts, task_id)
    IN /\ NoSave("get_task", m, <<task_id>>, IF i = 0 THEN None ELSE ts[i], ts)
       /\ UNCHANGED <<clock, issued, tasks_in>>

\* created_at stamped again on completion
CompletedRestamps(t) ==
    [t EXCEPT !.completed = TRUE, !.completed_at = IsoFormat(clock),
              !.created_at = IsoFormat(clock)]

\* the time of the first completion kept when the task is completed already
CompletedOnce(t) ==
    IF t.completed THEN t
    ELSE [t EXCEPT !.completed = TRUE, !.completed_at = IsoFormat(clock)]

Completed(t) == [t EXCEPT !.completed = TRUE, !.completed_at = IsoFormat(clock)]

complete_task(m, task_id, rd, ios) ==
    LET ts == Tasks(m, rd)
        i == Find(ts, task_id)
    IN /\ IF i = 0
          THEN NoSave("complete_task", m, <<task_id>>, None, ts)
          ELSE LET new == [ts EXCEPT ![i] = Completed(ts[i])]
               IN Save("complete_task", m, <<task_id>>, new[i], ts, new, ios)
       /\ UNCHANGED <<clock, issued, tasks_in>>

\* completed_at left as it was
ReopenedKeepsStamp(t) == [t EXCEPT !.completed = FALSE]

Reopened(t) == [t EXCEPT !.completed = FALSE, !.completed_at = None]

uncomplete_task(m, task_id, rd, ios) ==
    LET ts == Tasks(m, rd)
        i == Find(ts, task_id)
    IN /\ IF i = 0
          THEN NoSave("uncomplete_task", m, <<task_id>>, None, ts)
          ELSE LET new == [ts EXCEPT ![i] = Reopened(ts[i])]
               IN Save("uncomplete_task", m, <<task_id>>, new[i], ts, new, ios)
       /\ UNCHANGED <<clock, issued, tasks_in>>

\* list.pop(i)
Pop(ts, i) == [k \in 1..(Len(ts) - 1) |-> IF k < i THEN ts[k] ELSE ts[k + 1]]

\* the call of _save left out
delete_task_unsaved(m, task_id, rd, ios) ==
    LET ts == Tasks(m, rd)
        i == Find(ts, task_id)
    IN /\ IF i = 0
          THEN NoSave("delete_task", m, <<task_id>>, FALSE, ts)
          ELSE NoSave("delete_task", m, <<task_id>>, TRUE, Pop(ts, i))
       /\ UNCHANGED <<clock, issued, tasks_in>>

delete_task(m, task_id, rd, ios) ==
    LET ts == Tasks(m, rd)
        i == Find(ts, task_id)
    IN /\ IF i = 0
          THEN NoSave("delete_task", m, <<task_id>>, FALSE, ts)
          ELSE Save("delete_task", m, <<task_id>>, TRUE, ts, Pop(ts, i), ios)
       /\ UNCHANGED <<clock, issued, tasks_in>>

\* an unknown priority coerced to medium, as add_task does
UpdatedCoerced(t, title, description, priority) ==
    [t EXCEPT
       !.title = IF title # None THEN title[1] ELSE @,
       !.description = IF description # None THEN description[1] ELSE @,
       !.priority = IF priority = None THEN @
                    ELSE IF InPriorities(Lower(priority[1]))
                         THEN Lower(priority[1]) ELSE "medium"]

\* an omitted description reset to the default of add_task
UpdatedResetsDescription(t, title, description, priority) ==
    [t EXCEPT
       !.title = IF title # None THEN title[1] ELSE @,
       !.description = IF description # None THEN description[1] ELSE "",
       !.priority = IF priority # None /\ InPriorities(Lower(priority[1]))
                    THEN Lower(priority[1]) ELSE @]

Updated(t, title, description, priority) ==
    [t EXCEPT
       !.title = IF title # None THEN title[1] ELSE @,
       !.description = IF description # None THEN description[1] ELSE @,
       !.priority = IF priority # None /\ InPriorities(Lower(priority[1]))
                    THEN Lower(priority[1]) ELSE @]

update_task(m, task_id, title, description, priority, rd, ios) ==
    LET ts == Tasks(m, rd)
        i == Find(ts, task_id)
        args == <<task_id, title, description, priority>>
    IN /\ IF i = 0
          THEN NoSave("update_task", m, args, None, ts)
          ELSE LET new == [ts EXCEPT ![i] = Updated(ts[i], title, description, priority)]
               IN Save("update_task", m, args, new[i], ts, new, ios)
       /\ UNCHANGED <<clock, issued, tasks_in>>

IsCompleted(t) == t.completed

NotCompleted(t) == ~t.completed

\* _save called whatever the count
clear_completed_always_saves(m, rd, ios) ==
    LET ts == Tasks(m, rd)
        new == SelectSeq(ts, NotCompleted)
        removed == Len(ts) - Len(new)
    IN /\ Save("clear_completed", m, <<>>, removed, ts, new, ios)
       /\ UNCHANGED <<clock, issued, tasks_in>>

clear_completed(m, rd, ios) ==
    LET ts == Tasks(m, rd)
        new == SelectSeq(ts, NotCompleted)
        removed == Len(ts) - Len(new)
    IN /\ IF removed > 0
          THEN Save("clear_completed", m, <<>>, removed, ts, new, ios)
          ELSE NoSave("clear_completed", m, <<>>, removed, new)
       /\ UNCHANGED <<clock, issued, tasks_in>>

\* truthiness of an optional str argument: None and "" are false
Truthy(arg) == arg # None /\ arg[1] # ""

\* the priority not negated
SortKeyAscending(t) ==
    <<IF InPriorities(t.priority) THEN PRIORITIES[t.priority] ELSE 2, t.id>>

\* the sort key (-PRIORITIES.get(priority, 2), id)
SortKey(t) ==
    <<-(IF InPriorities(t.priority) THEN PRIORITIES[t.priority] ELSE 2), t.id>>

\* tuple comparison a <= b
KeyLeq(a, b) == a[1] < b[1] \/ (a[1] = b[1] /\ a[2] <= b[2])

RECURSIVE InsertByKey(_, _)
\* x goes behind every element whose key is <= its own (stable)
InsertByKey(s, x) ==
    IF s = <<>> THEN <<x>>
    ELSE IF KeyLeq(SortKey(Head(s)), SortKey(x))
         THEN <<Head(s)>> \o InsertByKey(Tail(s), x)
         ELSE <<x>> \o s

RECURSIVE SortByKey(_)
\* list.sort(key=...): a stable sort
SortByKey(s) ==
    IF s = <<>> THEN <<>>
    ELSE InsertByKey(SortByKey(SubSeq(s, 1, Len(s) - 1)), s[Len(s)])

\* the priority filter compared without lower()
ListResultCaseSensitive(ts, status, priority) ==
    LET byStatus ==
            IF status = <<"completed">> THEN SelectSeq(ts, IsCompleted)
            ELSE IF status = <<"pending">> THEN SelectSeq(ts, NotCompleted)
            ELSE ts
        HasPriority(t) == t.priority = priority[1]
        byPriority ==
            IF Truthy(priority) /\ InPriorities(Lower(priority[1]))
            THEN SelectSeq(byStatus, HasPriority)
            ELSE byStatus
    IN SortByKey(byPriority)

ListResult(ts, status, priority) ==
    LET byStatus ==
            IF status = <<"completed">> THEN SelectSeq(ts, IsCompleted)
            ELSE IF status = <<"pending">> THEN SelectSeq(ts, NotCompleted)
            ELSE ts
        HasPriority(t) == t.priority = Lower(priority[1])
        byPriority ==
            IF Truthy(priority) /\ InPriorities(Lower(priority[1]))
            THEN SelectSeq(byStatus, HasPriority)
            ELSE byStatus
    IN SortByKey(byPriority)

\* the sort applied to the collection itself, not to a copy of it
list_tasks_in_place(m, status, priority, rd) ==
    LET ts == Tasks(m, rd)
    IN /\ NoSave("list_tasks", m, <<status, priority>>,
                 ListResult(ts, status, priority), SortByKey(ts))
       /\ UNCHANGED <<clock, issued, tasks_in>>

list_tasks(m, status, priority, rd) ==
    LET ts == Tasks(m, rd)
    IN /\ NoSave("list_tasks", m, <<status, priority>>, ListResult(ts, status, priority), ts)
       /\ UNCHANGED <<clock, issued, tasks_in>>

\* completed tasks counted too
CountAll(ts, p) == Len(SelectSeq(ts, LAMBDA t : t.priority = p))

RECURSIVE CountPending(_, _)
\* the by_priority loop for one priority p
CountPending(ts, p) ==
    IF ts = <<>> THEN 0
    ELSE (IF Head(ts).priority = p /\ ~Head(ts).completed THEN 1 ELSE 0)
         + CountPending(Tail(ts), p)

Stats(ts) ==
    LET total == Len(ts)
        completed == Len(SelectSeq(ts, IsCompleted))
    IN [total |-> total,
        completed |-> completed,
        pending |-> total - completed,
        high_priority |-> CountPending(ts, "high"),
        medium_priority |-> CountPending(ts, "medium"),
        low_priority |-> CountPending(ts, "low")]

get_stats(m, rd) ==
    LET ts == Tasks(m, rd)
    IN /\ NoSave("get_stats", m, <<>>, Stats(ts), ts)
       /\ UNCHANGED <<clock, issued, tasks_in>>

\* TaskManager.__init__: a new invocation starts with _tasks = None
new_manager(m) ==
    /\ cache[m].loaded
    /\ cache' = [cache EXCEPT ![m] = Unloaded]
    /\ last' = Call("new_manager", m, <<>>, None, "ok", FALSE, {})
    /\ UNCHANGED <<disk, clock, issued, tasks_in>>

\* time passes between two readings of datetime.now()
Tick ==
    /\ clock < MaxClock
    /\ clock' = clock + 1
    /\ last' = Call("tick", "none", <<>>, None, "ok", FALSE, {})
    /\ UNCHANGED <<disk, cache, issued, tasks_in>>

----------------------------------------------------------------------------
(* Direct calls of TaskStorage, as test_storage makes them *)

save_tasks_call(io) ==
    /\ disk' = save_tasks(disk, tasks_in, io)
    /\ last' = Call("save_tasks", "none", <<io>>, None,
                    IF io = "ok" THEN "ok" ELSE "raised", io = "ok", {})
    /\ UNCHANGED <<cache, clock, issued, tasks_in>>

load_tasks_call(rd) ==
    /\ last' = Call("load_tasks", "none", <<rd>>, load_tasks(disk, rd), "ok", FALSE, {})
    /\ UNCHANGED <<disk, cache, clock, issued, tasks_in>>

get_next_id_call ==
    /\ last' = Call("get_next_id", "none", <<>>, get_next_id(tasks_in), "ok", FALSE, {})
    /\ UNCHANGED <<disk, cache, clock, issued, tasks_in>>

----------------------------------------------------------------------------
(* Specifications *)

Ids == 1..MaxId

Opt(S) == {None} \cup {<<x>> : x \in S}

NoCall == Call("init", "none", <<>>, None, "ok", FALSE, {})

Init ==
    /\ disk = Absent
    /\ cache = [m \in Managers |-> Unloaded]
    /\ clock = 1
    /\ last = NoCall
    /\ issued = 0
    /\ tasks_in = <<>>

\* the outcomes of the lazy load that differ for this manager
RdFor(m, rds) ==
    IF cache[m].loaded \/ disk.state # "ok" THEN {"ok"} ELSE rds

\* arg: the sets the arguments of the calls are drawn from
Mutate(m, rds, ios, arg) ==
    \/ \E rd \in RdFor(m, rds), title \in arg.titles, priority \in arg.priorities,
          description \in arg.descriptions :
          add_task(m, title, priority, description, rd, ios)
    \/ \E rd \in RdFor(m, rds), task_id \in Ids : complete_task(m, task_id, rd, ios)
    \/ \E rd \in RdFor(m, rds), task_id \in Ids : uncomplete_task(m, task_id, rd, ios)
    \/ \E rd \in RdFor(m, rds), task_id \in Ids : delete_task(m, task_id, rd, ios)
    \/ \E rd \in RdFor(m, rds), task_id \in Ids, title \in Opt(arg.new_titles),
          description \in Opt(arg.new_descriptions),
          priority \in Opt(arg.new_priorities) :
          update_task(m, task_id, title, description, priority, rd, ios)
    \/ \E rd \in RdFor(m, rds) : clear_completed(m, rd, ios)

Read(m, rds, arg) ==
    \/ \E rd \in RdFor(m, rds), task_id \in Ids : get_task(m, task_id, rd)
    \/ \E rd \in RdFor(m, rds), status \in arg.statuses, priority \in Opt(arg.filters) :
          list_tasks(m, status, priority, rd)
    \/ \E rd \in RdFor(m, rds) : get_stats(m, rd)

\* Successive invocations of one manager on one document
Args ==
    [titles |-> {"t1"}, descriptions |-> {"d1"}, priorities |-> {"HIGH", "bogus"},
     new_titles |-> {"t2"}, new_descriptions |-> {"d1"}, new_priorities |-> {"Medium", "bogus"},
     statuses |-> {<<"pending">>}, filters |-> {"high"}]

Next ==
    \/ Mutate("A", {"ok"}, {"ok"}, Args)
    \/ Read("A", {"ok"}, Args)
    \/ new_manager("A")

Spec == Init /\ [][Next]_vars

\* The same while time passes
ClockArgs ==
    [titles |-> {"t1"}, descriptions |-> {""}, priorities |-> {"medium"},
     new_titles |-> {}, new_descriptions |-> {}, new_priorities |-> {"high"},
     statuses |-> {None}, filters |-> {}]

NextClock ==
    \/ Mutate("A", {"ok"}, {"ok"}, ClockArgs)
    \/ Read("A", {"ok"}, ClockArgs)
    \/ new_manager("A")
    \/ Tick

SpecClock == Init /\ [][NextClock]_vars

\* The same with reads and writes of the document that fail
IOArgs ==
    [titles |-> {"t1"}, descriptions |-> {""}, priorities |-> {"medium"},
     new_titles |-> {}, new_descriptions |-> {}, new_priorities |-> {},
     statuses |-> {None}, filters |-> {}]

NextIO ==
    \/ Mutate("A", RD, IO, IOArgs)
    \/ Read("A", RD, IOArgs)
    \/ new_manager("A")

SpecIO == Init /\ [][NextIO]_vars

\* Two invocations alive at once on one document
RaceArgs ==
    [titles |-> {"t1"}, descriptions |-> {""}, priorities |-> {"medium"},
     new_titles |-> {}, new_descriptions |-> {}, new_priorities |-> {},
     statuses |-> {None}, filters |-> {}]

NextRace ==
    \/ \E m \in Managers : Mutate(m, {"ok"}, {"ok"}, RaceArgs)
    \/ \E m \in Managers : Read(m, {"ok"}, RaceArgs)
    \/ \E m \in Managers : new_manager(m)

SpecRace == Init /\ [][NextRace]_vars

----------------------------------------------------------------------------
(* Direct use of TaskStorage and of the read operations on any collection *)

\* a task with every field of the data model
WellFormedTask(t) ==
    /\ t.id \in Nat \ {0}
    /\ InPriorities(t.priority)
    /\ t.created_at # None /\ t.created_at[1] = "str"
    /\ t.completed_at = None \/ t.completed_at[1] = "str"
    /\ t.completed <=> t.completed_at # None

WellFormed(ts) ==
    /\ \A i \in 1..Len(ts) : WellFormedTask(ts[i])
    /\ \A i, j \in 1..Len(ts) : ts[i].id = ts[j].id => i = j

SampleTask(id, priority, completed, created_at) ==
    [id |-> id, title |-> "t1", description |-> "", priority |-> priority,
     completed |-> completed, created_at |-> created_at,
     completed_at |-> IF completed THEN IsoFormat(1) ELSE None]

\* the well-formed tasks, and one whose created_at is a datetime object
SampleTasks ==
    {SampleTask(id, p, c, IsoFormat(1)) : id \in Ids, p \in DOMAIN PRIORITIES, c \in BOOLEAN}
    \cup {SampleTask(id, "medium", FALSE, DateTime(1)) : id \in Ids}

RECURSIVE SeqsUpTo(_, _)
SeqsUpTo(S, n) ==
    IF n = 0 THEN {<<>>}
    ELSE LET shorter == SeqsUpTo(S, n - 1)
         IN shorter \cup {Append(s, x) : s \in shorter, x \in S}

\* collections in any order, with gaps, without duplicate ids
Collections ==
    {ts \in SeqsUpTo(SampleTasks, MaxLen) :
        \A i, j \in 1..Len(ts) : ts[i].id = ts[j].id => i = j}

InitFn ==
    /\ disk = Absent
    /\ cache = [m \in Managers |-> Unloaded]
    /\ clock = 1
    /\ last = NoCall
    /\ issued = 0
    /\ tasks_in \in Collections

FnArgs ==
    [titles |-> {}, descriptions |-> {}, priorities |-> {},
     new_titles |-> {}, new_descriptions |-> {}, new_priorities |-> {},
     statuses |-> {None, <<"completed">>, <<"pending">>},
     filters |-> {"HIGH", "bogus", ""}]

NextFn ==
    \/ \E io \in IO : save_tasks_call(io)
    \/ \E rd \in RD : load_tasks_call(rd)
    \/ get_next_id_call
    \/ Read("A", {"ok"}, FnArgs)
    \/ new_manager("A")

SpecFn == InitFn /\ [][NextFn]_vars

----------------------------------------------------------------------------
(* Properties *)

MutatingOps ==
    {"add_task", "complete_task", "uncomplete_task", "update_task",
     "delete_task", "clear_completed"}

Returned(op) == last.op = op /\ last.outcome = "ok"

\* the document holds exactly the collection ts
DocEquals(d, ts) == d.state # "malformed" /\ load_tasks(d, "ok") = ts

\* the call found its task, or removed at least one: it went through _save
Effective(c) ==
    CASE c.op = "add_task" -> TRUE
      [] c.op \in {"complete_task", "uncomplete_task", "update_task"} -> c.result # None
      [] c.op = "delete_task" -> c.result = TRUE
      [] c.op = "clear_completed" -> c.result > 0
      [] OTHER -> FALSE

\* C1: every id add_task returns is greater than every id add_task returned
\* before, whatever was deleted in between in successive invocations
\* on one document.
C1_IdsStrictlyIncreasing ==
    [][(last'.op = "add_task" /\ last'.outcome = "ok") => last'.result.id > issued]_vars

\* C2: no two tasks of a manager's in-memory collection have the same id.
C2_UniqueIds ==
    \A m \in Managers :
        \A i, j \in 1..Len(cache[m].tasks) :
            cache[m].tasks[i].id = cache[m].tasks[j].id => i = j

C2_Witness ==
    /\ Len(cache["A"].tasks) = 2
    /\ Len(cache["B"].tasks) = 2
    /\ cache["A"].tasks # cache["B"].tasks
    /\ Returned("add_task")

\* C3: for every task of every collection and of the document, completed is
\* true exactly when completed_at is not None.
C3_CompletedIffCompletedAt ==
    /\ \A m \in Managers : \A t \in Range(cache[m].tasks) :
          t.completed <=> t.completed_at # None
    /\ \A t \in Range(load_tasks(disk, "ok")) :
          t.completed <=> t.completed_at # None

C3_Witness ==
    /\ Returned("uncomplete_task")
    /\ last.result # None
    /\ \E t \in Range(cache["A"].tasks) : t.completed
    /\ \E t \in Range(cache["A"].tasks) : ~t.completed /\ t.id = last.args[1]

\* C4 as stated: after every mutating call that returns normally, the
\* document equals the manager's collection.
C4_SavedAfterEveryReturn ==
    (last.op \in MutatingOps /\ last.outcome = "ok")
        => DocEquals(disk, cache[last.mgr].tasks)

\* C4 amended: after every mutating call that returns normally with a task,
\* True or a positive count (the calls that reach _save), the document equals
\* the manager's collection.
C4_SavedAfterEffectiveReturn ==
    (last.op \in MutatingOps /\ last.outcome = "ok" /\ Effective(last))
        => DocEquals(disk, cache[last.mgr].tasks)

C4_Witness ==
    /\ Returned("delete_task")
    /\ last.result = TRUE
    /\ Len(cache["A"].tasks) >= 1
    /\ DocEquals(disk, cache["A"].tasks)

\* the task a call wrote and returned
Written(c) ==
    IF c.op \in {"add_task", "complete_task", "uncomplete_task", "update_task"}
    THEN {c.result} ELSE {}

\* the collection a manager works on when a call starts
Before(m) == IF cache[m].loaded THEN cache[m].tasks ELSE load_tasks(disk, "ok")

\* C5: when a manager that holds a stale collection completes a mutating call,
\* the document is overwritten from that collection: a task of the previous
\* document that the manager did not hold and did not write itself is gone.
C5_LastWriterWins ==
    [][\A m \in Managers :
          (/\ last'.mgr = m
           /\ last'.op \in MutatingOps
           /\ last'.outcome = "ok"
           /\ Effective(last')
           /\ cache[m].loaded)
          => \A t \in Range(load_tasks(disk, "ok")) :
                (t \notin Range(cache[m].tasks) /\ t \notin Written(last'))
                    => t \notin Range(load_tasks(disk', "ok"))]_vars

\* the update of the other manager has just been lost
C5_Witness ==
    /\ last.op \in MutatingOps
    /\ last.outcome = "ok"
    /\ last.lost # {}
    /\ \E m \in Managers \ {last.mgr} :
          \E t \in last.lost : t \in Range(cache[m].tasks)

\* C6: load_tasks right after save_tasks(T) returns T, for well-formed T.
C6_RoundTrip ==
    [][(/\ last.op = "save_tasks" /\ last.outcome = "ok"
        /\ last'.op = "load_tasks" /\ last'.args = <<"ok">>
        /\ WellFormed(tasks_in))
       => last'.result = tasks_in]_vars

C6_Witness ==
    /\ last.op = "load_tasks"
    /\ disk.state = "ok"
    /\ WellFormed(tasks_in)
    /\ Len(tasks_in) = 2
    /\ tasks_in[1].completed_at # None
    /\ tasks_in[2].completed_at = None
    /\ last.result = tasks_in

IdsOf(ts) == {ts[i].id : i \in 1..Len(ts)}

Greatest(S) == CHOOSE x \in S : \A y \in S : y <= x

\* C7: get_next_id is 1 for the empty collection and the greatest id plus one
\* otherwise.
C7_NextId ==
    last.op = "get_next_id"
        => last.result = IF tasks_in = <<>> THEN 1 ELSE Greatest(IdsOf(tasks_in)) + 1

C7_Witness ==
    /\ last.op = "get_next_id"
    /\ Len(tasks_in) = 2
    /\ tasks_in[1].id > tasks_in[2].id
    /\ last.result = tasks_in[1].id + 1

\* C8: add_task appends exactly one task, with the next id, the given title
\* and description, not completed; leaves the others as they were; returns
\* the new task; and the document then holds the new collection.
C8_AddTask ==
    [][(last'.op = "add_task" /\ last'.outcome = "ok")
       => LET m == last'.mgr
              C == Before(m)
              new == cache'[m].tasks
              t == last'.result
          IN /\ Len(new) = Len(C) + 1
             /\ \A i \in 1..Len(C) : new[i] = C[i]
             /\ new[Len(new)] = t
             /\ t.id = get_next_id(C)
             /\ t.title = last'.args[1]
             /\ t.description = last'.args[3]
             /\ t.completed = FALSE
             /\ t.completed_at = None
             /\ DocEquals(disk', new)]_vars

C8_Witness ==
    /\ Returned("add_task")
    /\ Len(cache["A"].tasks) = 2
    /\ last.result = cache["A"].tasks[2]
    /\ last.result.description = "d1"

Rank(t) ==
    CASE t.priority = "high" -> 3
      [] t.priority = "medium" -> 2
      [] t.priority = "low" -> 1

Unfiltered == last.op = "list_tasks" /\ last.args = <<None, None>>

\* C9: list_tasks without filters returns every task once, higher priority
\* first and, within a priority, in ascending id.
C9_ListSorted ==
    Unfiltered =>
        LET ts == cache[last.mgr].tasks
            r == last.result
        IN /\ Len(r) = Len(ts)
           /\ \A i \in 1..Len(ts) : Cardinality({j \in 1..Len(r) : r[j] = ts[i]}) = 1
           /\ \A j \in 1..(Len(r) - 1) :
                 \/ Rank(r[j]) > Rank(r[j + 1])
                 \/ Rank(r[j]) = Rank(r[j + 1]) /\ r[j].id < r[j + 1].id

C9_Witness ==
    /\ Unfiltered
    /\ Len(last.result) = 2
    /\ last.result # cache[last.mgr].tasks
    /\ Rank(last.result[1]) > Rank(last.result[2])

Recognized(priority) ==
    priority # None /\ Lower(priority[1]) \in {"high", "medium", "low"}

Keeps(t, status, priority) ==
    /\ status = <<"completed">> => t.completed
    /\ status = <<"pending">> => ~t.completed
    /\ Recognized(priority) => t.priority = Lower(priority[1])

\* C10: list_tasks(status, priority) returns exactly the tasks that pass the
\* status filter and the priority filter, an unrecognized priority keeping all.
C10_ListFilters ==
    last.op = "list_tasks" =>
        LET ts == cache[last.mgr].tasks
            kept == {t \in Range(ts) : Keeps(t, last.args[1], last.args[2])}
        IN /\ Range(last.result) = kept
           /\ Len(last.result) = Cardinality(kept)

C10_Witness ==
    /\ last.op = "list_tasks"
    /\ last.args = <<<<"completed">>, <<"HIGH">>>>
    /\ Len(last.result) = 1
    /\ Len(cache[last.mgr].tasks) = 2

ReadOps == {"get_task", "list_tasks", "get_stats"}

\* C11: get_task, list_tasks and get_stats leave the manager's collection
\* (content and order) and the document as they were, and do not save.
C11_ReadsChangeNothing ==
    [][last'.op \in ReadOps
       => LET m == last'.mgr
          IN /\ cache'[m].tasks = Before(m)
             /\ disk' = disk
             /\ ~last'.saved]_vars

\* a listing in another order than the collection, which stays as the
\* document has it
C11_Witness ==
    /\ last.op = "list_tasks"
    /\ last.args = <<None, <<"bogus">>>>
    /\ Len(last.result) = 2
    /\ last.result # cache[last.mgr].tasks
    /\ DocEquals(disk, cache[last.mgr].tasks)

\* the number of tasks of ts that satisfy P
HowMany(ts, P(_)) == Cardinality({i \in 1..Len(ts) : P(ts[i])})

\* C12: get_stats returns the number of tasks, of completed tasks, of pending
\* tasks (their difference) and, for each priority, the number of pending
\* tasks of that priority.
C12_Stats ==
    last.op = "get_stats" =>
        LET ts == cache[last.mgr].tasks
            r == last.result
            PendingOf(p) == HowMany(ts, LAMBDA t : ~t.completed /\ t.priority = p)
        IN /\ r.total = Len(ts)
           /\ r.completed = HowMany(ts, LAMBDA t : t.completed)
           /\ r.pending = r.total - r.completed
           /\ r.high_priority = PendingOf("high")
           /\ r.medium_priority = PendingOf("medium")
           /\ r.low_priority = PendingOf("low")

\* a completed task of a priority next to a pending one of the same priority
C12_Witness ==
    /\ last.op = "get_stats"
    /\ last.result.total = 2
    /\ last.result.completed = 1
    /\ last.result.high_priority = 1
    /\ \A t \in Range(cache[last.mgr].tasks) : t.priority = "high"

\* the spellings of each priority name
Spellings ==
    [high |-> {"high", "High", "HIGH"},
     medium |-> {"medium", "Medium", "MEDIUM"},
     low |-> {"low", "Low", "LOW"}]

ValidPriority(p) == \E v \in DOMAIN Spellings : p \in Spellings[v]

Canonical(p) == CHOOSE v \in DOMAIN Spellings : p \in Spellings[v]

\* the task with this id in the collection C
TaskOf(C, task_id) == C[CHOOSE i \in 1..Len(C) : C[i].id = task_id]

\* C13: add_task stores a valid priority lower-cased and any other as medium;
\* update_task stores a valid priority lower-cased and leaves the task's
\* priority as it was for any other.
C13_PriorityValidation ==
    [][/\ (last'.op = "add_task" /\ last'.outcome = "ok")
          => last'.result.priority =
                IF ValidPriority(last'.args[2])
                THEN Canonical(last'.args[2]) ELSE "medium"
       /\ (/\ last'.op = "update_task" /\ last'.outcome = "ok"
           /\ last'.result # None /\ last'.args[4] # None)
          => last'.result.priority =
                IF ValidPriority(last'.args[4][1])
                THEN Canonical(last'.args[4][1])
                ELSE TaskOf(Before(last'.mgr), last'.args[1]).priority]_vars

\* an update with an unknown priority on a task that add_task made high
C13_Witness ==
    /\ Returned("update_task")
    /\ last.args[4] = <<"bogus">>
    /\ last.result # None
    /\ last.result.priority = "high"
    /\ \E t \in Range(cache[last.mgr].tasks) : t.priority = "medium"

\* C16: update_task on an existing task overwrites the fields that were given
\* (a priority only when valid), leaves the other fields of the task and every
\* other task as they were, returns the task, and saves the collection even
\* when nothing changed.
C16_UpdateTask ==
    [][(last'.op = "update_task" /\ last'.outcome = "ok" /\ last'.result # None)
       => LET m == last'.mgr
              C == Before(m)
              new == cache'[m].tasks
              title == last'.args[2]
              description == last'.args[3]
              priority == last'.args[4]
          IN /\ Len(new) = Len(C)
             /\ \A i \in 1..Len(C) :
                   IF C[i].id = last'.args[1]
                   THEN /\ new[i] = last'.result
                        /\ new[i].title = IF title = None THEN C[i].title ELSE title[1]
                        /\ new[i].description =
                              IF description = None THEN C[i].description ELSE description[1]
                        /\ new[i].priority =
                              IF priority # None /\ ValidPriority(priority[1])
                              THEN Canonical(priority[1]) ELSE C[i].priority
                        /\ new[i].id = C[i].id
                        /\ new[i].created_at = C[i].created_at
                        /\ new[i].completed = C[i].completed
                        /\ new[i].completed_at = C[i].completed_at
                   ELSE new[i] = C[i]
             /\ last'.saved
             /\ DocEquals(disk', new)]_vars

\* a new title alone for a completed task that has a description, next to
\* another task
C16_Witness ==
    /\ Returned("update_task")
    /\ last.args[2] = <<"t2">> /\ last.args[3] = None /\ last.args[4] = None
    /\ last.result # None
    /\ last.result.title = "t2"
    /\ last.result.description = "d1"
    /\ last.result.completed
    /\ Len(cache[last.mgr].tasks) = 2
    /\ \E t \in Range(cache[last.mgr].tasks) : t.title = "t1"

\* new holds the elements of C that satisfy P, once each, in the order of C
IsSelection(new, C, P(_)) ==
    \E f \in [1..Len(new) -> 1..Len(C)] :
        /\ \A i, j \in 1..Len(new) : i < j => f[i] < f[j]
        /\ \A i \in 1..Len(new) : new[i] = C[f[i]]
        /\ \A k \in 1..Len(C) : P(C[k]) <=> \E i \in 1..Len(new) : f[i] = k

\* C14: clear_completed removes the completed tasks and no others, keeps the
\* remaining tasks as they were and in their order, returns the number
\* removed, saves exactly when that number is positive, and a second call
\* right after returns 0 and changes nothing.
C14_ClearCompleted ==
    [][(last'.op = "clear_completed" /\ last'.outcome = "ok")
       => LET m == last'.mgr
              C == Before(m)
              new == cache'[m].tasks
          IN /\ IsSelection(new, C, LAMBDA t : ~t.completed)
             /\ last'.result = Len(C) - Len(new)
             /\ last'.result > 0 => last'.saved /\ DocEquals(disk', new)
             /\ last'.result = 0 => ~last'.saved /\ disk' = disk
             /\ (last.op = "clear_completed" /\ last.outcome = "ok" /\ last.mgr = m)
                   => /\ last'.result = 0
                      /\ new = cache[m].tasks
                      /\ disk' = disk]_vars

\* one task removed, one kept
C14_Witness ==
    /\ Returned("clear_completed")
    /\ last.result = 1
    /\ Len(cache[last.mgr].tasks) = 1
    /\ last.saved
    /\ DocEquals(disk, cache[last.mgr].tasks)

ManagerOps == MutatingOps \cup ReadOps

\* the tasks of old are tasks of C, in the order of C, with the id and the
\* created_at they have in C
KeepsIdentity(old, C) ==
    \E f \in [1..Len(old) -> 1..Len(C)] :
        /\ \A i, j \in 1..Len(old) : i < j => f[i] < f[j]
        /\ \A i \in 1..Len(old) :
              /\ old[i].id = C[f[i]].id
              /\ old[i].created_at = C[f[i]].created_at

\* C17: every task that is in the collection before and after a call has the
\* id and the created_at it had before; the task add_task appends gets the
\* time of that call.
C17_IdAndCreatedAtImmutable ==
    [][last'.op \in ManagerOps
       => LET m == last'.mgr
              C == Before(m)
              new == cache'[m].tasks
          IN IF last'.op = "add_task"
             THEN /\ Len(new) = Len(C) + 1
                  /\ KeepsIdentity(SubSeq(new, 1, Len(C)), C)
                  /\ new[Len(new)].created_at = IsoFormat(clock)
             ELSE /\ KeepsIdentity(new, C)
                  /\ last'.op \notin {"delete_task", "clear_completed"}
                        => Len(new) = Len(C)]_vars

\* a task made at time 1 updated at time 2, next to a task made at time 2
C17_Witness ==
    /\ Returned("update_task")
    /\ clock = 2
    /\ last.result # None
    /\ last.result.id = 1
    /\ last.result.priority = "high"
    /\ last.result.created_at = IsoFormat(1)
    /\ \E t \in Range(cache[last.mgr].tasks) : t.id = 2 /\ t.created_at = IsoFormat(2)

\* C19 as stated: the completed_at of a task changes only in a call that
\* changes its completed flag, so that complete_task on a completed task
\* leaves the time of the first completion.
C19_OnlyOnTransition ==
    [][last'.op \in ManagerOps
       => LET m == last'.mgr
          IN \A t \in Range(Before(m)), u \in Range(cache'[m].tasks) :
                (u.id = t.id /\ u.completed_at # t.completed_at)
                    => u.completed # t.completed]_vars

\* C19 amended: the completed_at of a task changes only in complete_task on
\* that task, which sets it to the time of the call whether or not the task
\* was completed already, and in uncomplete_task on that task, which clears it.
C19_CompletedAtChanges ==
    [][last'.op \in ManagerOps
       => LET m == last'.mgr
          IN /\ \A t \in Range(Before(m)), u \in Range(cache'[m].tasks) :
                   (u.id = t.id /\ u.completed_at # t.completed_at)
                       => \/ /\ last'.op = "complete_task"
                             /\ last'.args[1] = t.id
                          \/ /\ last'.op = "uncomplete_task"
                             /\ last'.args[1] = t.id
                             /\ t.completed
             /\ \A u \in Range(cache'[m].tasks) :
                   /\ (last'.op = "complete_task" /\ last'.args[1] = u.id)
                         => u.completed_at = IsoFormat(clock)
                   /\ (last'.op = "uncomplete_task" /\ last'.args[1] = u.id)
                         => u.completed_at = None]_vars

\* task 1 completed at time 2 next to a task that was completed at time 1
C19_Witness ==
    /\ Returned("complete_task")
    /\ last.args = <<1>>
    /\ last.result # None
    /\ last.result.completed_at = IsoFormat(2)
    /\ \E t \in Range(cache[last.mgr].tasks) : t.id = 2 /\ t.completed_at = IsoFormat(1)

IdOps == {"get_task", "complete_task", "uncomplete_task", "update_task", "delete_task"}

\* the collections a call of manager m can start from: its own, or what the
\* lazy load makes of the document
Starts(m) ==
    IF cache[m].loaded THEN {cache[m].tasks}
    ELSE {load_tasks(disk, rd) : rd \in RD}

\* C15: a call with an id that no task of the collection has returns None
\* (False for delete_task) without raising, leaves the collection as it was
\* and does not save.
C15_NotFound ==
    [][(/\ last'.op \in IdOps
        /\ \A C \in Starts(last'.mgr) : last'.args[1] \notin IdsOf(C))
       => /\ last'.outcome = "ok"
          /\ IF last'.op = "delete_task"
             THEN last'.result = FALSE ELSE last'.result = None
          /\ cache'[last'.mgr].tasks \in Starts(last'.mgr)
          /\ disk' = disk
          /\ ~last'.saved]_vars

\* delete_task with an id that the one task of the collection does not have
C15_Witness ==
    /\ Returned("delete_task")
    /\ last.result = FALSE
    /\ Len(cache[last.mgr].tasks) = 1
    /\ last.args[1] \notin IdsOf(cache[last.mgr].tasks)
    /\ DocEquals(disk, cache[last.mgr].tasks)

\* C18: the lazy load never raises and gives the empty collection for an
\* absent, unreadable or malformed document; a manager that starts on a
\* malformed document and then adds a task with success leaves a document
\* that holds that task alone: the tasks the malformed text was written from
\* are gone.
C18_MalformedDiscarded ==
    [][last'.op \in ManagerOps
       => LET m == last'.mgr
              new == cache'[m].tasks
          IN /\ (last'.op \in ReadOps /\ ~cache[m].loaded)
                   => /\ last'.outcome = "ok"
                      /\ \/ new = <<>>
                         \/ disk.state = "ok" /\ new = json_load(disk.text)
                      /\ disk.state # "ok" => new = <<>>
             /\ (/\ disk.state = "malformed"
                 /\ ~cache[m].loaded \/ cache[m].tasks = <<>>
                 /\ last'.op = "add_task" /\ last'.outcome = "ok")
                   => /\ new = <<last'.result>>
                      /\ last'.result.id = 1
                      /\ disk'.state = "ok"
                      /\ json_load(disk'.text) = new
                      /\ \A t \in Range(json_load(disk.text)) :
                            t # last'.result => t \notin Range(json_load(disk'.text))]_vars

\* a task of the malformed text is gone after the add of a new invocation
C18_Witness ==
    /\ Returned("add_task")
    /\ last.lost # {}
    /\ \E t \in last.lost : t.completed
    /\ cache[last.mgr].tasks = <<last.result>>
    /\ DocEquals(disk, <<last.result>>)

\* the task u is the task t with the change of the call c made to it
MutatedTask(c, t, u) ==
    /\ c.op = "complete_task" => u.completed /\ u.completed_at # None
    /\ c.op = "uncomplete_task" => ~u.completed /\ u.completed_at = None
    /\ c.op = "update_task" =>
          /\ c.args[2] # None => u.title = c.args[2][1]
          /\ c.args[3] # None => u.description = c.args[3][1]
          /\ (c.args[2] = None /\ c.args[3] = None /\ c.args[4] = None) => u = t

\* new is the collection C with the change of the call c made to it
Mutated(c, C, new) ==
    CASE c.op = "add_task" ->
            /\ Len(new) = Len(C) + 1
            /\ SubSeq(new, 1, Len(C)) = C
            /\ new[Len(new)].title = c.args[1]
            /\ ~new[Len(new)].completed
      [] c.op \in {"complete_task", "uncomplete_task", "update_task"} ->
            /\ c.args[1] \in IdsOf(C)
            /\ Len(new) = Len(C)
            /\ \A i \in 1..Len(C) :
                  IF C[i].id # c.args[1] THEN new[i] = C[i]
                  ELSE MutatedTask(c, C[i], new[i])
      [] c.op = "delete_task" ->
            /\ c.args[1] \in IdsOf(C)
            /\ c.args[1] \notin IdsOf(new)
            /\ Len(new) = Len(C) - 1
            /\ IsSelection(new, C, LAMBDA t : t.id # c.args[1])
      [] c.op = "clear_completed" ->
            /\ Len(new) < Len(C)
            /\ IsSelection(new, C, LAMBDA t : ~t.completed)
      [] OTHER -> FALSE

\* the manager holds a collection that the document does not hold
Differs(d, c) == c.loaded /\ ~DocEquals(d, c.tasks)

\* C20 as stated: after a call whose save failed the collection and the
\* document differ, and they stay different as long as no save succeeds for
\* the invocation.
C20_DiffersUntilSaved ==
    [][\A m \in Managers :
          /\ (last'.mgr = m /\ last'.outcome = "raised")
                => Differs(disk', cache'[m])
          /\ (Differs(disk, cache[m]) /\ cache'[m].loaded /\ ~last'.saved)
                => Differs(disk', cache'[m])]_vars

\* C20 amended: a call whose save failed raises, leaves the collection with
\* its change and the document without a readable copy of it, so the two
\* differ when the call changed a collection that the document held; and a
\* collection that differs from the document keeps differing as long as
\* neither a save succeeds nor a later call changes the collection again.
C20_FailedSaveKeepsMutation ==
    [][\A m \in Managers :
          /\ (last'.mgr = m /\ last'.outcome = "raised")
                => /\ last'.op \in MutatingOps
                   /\ last'.result = None
                   /\ cache'[m].loaded
                   /\ \E C \in Starts(m) : Mutated(last', C, cache'[m].tasks)
                   /\ disk' = disk \/ disk'.state = "malformed"
                   /\ \A C \in Starts(m) :
                         (/\ Mutated(last', C, cache'[m].tasks)
                          /\ cache'[m].tasks # C
                          /\ DocEquals(disk, C))
                            => Differs(disk', cache'[m])
          /\ (/\ Differs(disk, cache[m]) /\ ~last'.saved
              /\ cache'[m] = cache[m])
                => Differs(disk', cache'[m])]_vars

\* add_task raised on a document that stays absent: the task is in the
\* collection only
C20_Witness ==
    /\ last.op = "add_task"
    /\ last.outcome = "raised"
    /\ Len(cache[last.mgr].tasks) = 1
    /\ disk = Absent

\* C21: every task of every collection and of the document has one of the
\* priorities high, medium, low, whatever priorities the calls were given;
\* so the three per-priority counts of get_stats add up to pending.
C21_PrioritiesValid ==
    /\ \A m \in Managers : \A t \in Range(cache[m].tasks) :
          t.priority \in {"high", "medium", "low"}
    /\ \A t \in Range(json_load(disk.text)) :
          t.priority \in {"high", "medium", "low"}
    /\ last.op = "get_stats"
          => last.result.high_priority + last.result.medium_priority
                + last.result.low_priority = last.result.pending

\* statistics over a task that was given HIGH, a task that was given an
\* unknown priority, both pending
C21_Witness ==
    /\ Returned("get_stats")
    /\ last.result.pending = 2
    /\ last.result.high_priority = 1
    /\ last.result.medium_priority = 1
    /\ DocEquals(disk, cache[last.mgr].tasks)

====
